---- MODULE Spec2Model ----
(***************************************************************************)
(* The query validation and execution gateway of SmartHomeDatabaseTool     *)
(* (src/smart_home_db_tool.py): validate_sql, _extract_table_names,        *)
(* _get_existing_tables, execute_query, with the operations that bring the *)
(* store into the states those run in (initialize_database, the connect of *)
(* main, reset_system, close).                                             *)
(*                                                                         *)
(* A raw SQL string is modelled as the sequence of its lexemes.  The       *)
(* single blank that separates two lexemes is left out; any other          *)
(* whitespace is a lexeme of its own (" ").  The tokenizer (sqlparse) and  *)
(* the engine (sqlite3) both read that sequence, each by its own rules.    *)
(*                                                                         *)
(* The tables whose rows are tracked are DataTables; a row is modelled by   *)
(* its key and, in users and rooms, its name column.                       *)
(***************************************************************************)
EXTENDS Integers, Sequences, FiniteSets, TLC

\* ------------------------------------------------------------------ bounds

\* usage_logs rows written by one run of _insert_sample_data (100 in the code).
SeedLogs == 1

\* ------------------------------------------------------- program constants

\* The fixed candidate vocabulary of _extract_table_names.
Vocabulary ==
    {"users", "devices", "usage_logs", "security_events", "user_feedback", "rooms"}

\* The engine's own table that the first AUTOINCREMENT table brings with it;
\* sqlite_master lists it with type='table' and DROP TABLE refuses it.
SqliteSequence == "sqlite_sequence"

\* The tables whose rows the model tracks, each row as <<key>> or <<key, name>>.
DataTables == {"users", "rooms", "usage_logs"}

Columns(t) ==
    CASE t = "users" -> <<"user_id", "username">>
      [] t = "rooms" -> <<"room_id", "room_name">>
      [] t = "usage_logs" -> <<"log_id">>

\* Column positions with a PRIMARY KEY or UNIQUE constraint.
UniqueColumns(t) ==
    CASE t = "users" -> {1, 2}
      [] t = "rooms" -> {1, 2}
      [] t = "usage_logs" -> {1}

\* users_data and rooms_data of _insert_sample_data, keyed as AUTOINCREMENT
\* numbers them on an empty table.
SeedUsers == {<<1, "zhangsan">>, <<2, "lisi">>, <<3, "wangwu">>, <<4, "zhaoliu">>}

SeedRooms ==
    {<<1, "keting">>, <<2, "zhuwoshi">>, <<3, "ciwoshi">>,
     <<4, "chufang">>, <<5, "weishengjian">>, <<6, "shufang">>}

\* ------------------------------------------------------------ the inputs

\* A string literal holding a lone surrogate, as argv decoding yields for a
\* byte that is not UTF-8.
BadLiteral == "'<U+DC80>'"

IntoRooms(verb, id, name) ==
    <<verb, "INTO", "rooms", "(", "room_id", ",", "room_name", ")",
      "VALUES", "(", id, ",", name, ")">>

Queries ==
    { <<>>,
      <<" ">>,
      <<"SELECT", "*", "FROM", "users">>,
      <<" ", "select", "*", "from", "USERS">>,
      <<"SELECT", "*", "FROM", "ghosts">>,
      <<"SELECT", "*", "FROM", "user">>,
      <<"SELECT", "COUNT", "(", "*", ")", "FROM", "rooms">>,
      <<"SELECT", "username", "FROM", "users">>,
      <<"SELECT", "*", "FROM", "rooms", ";", "DROP", "TABLE", "rooms">>,
      <<"DELETE", "FROM", "usage_logs", "WHERE", "log_id", "=", "999999">>,
      <<"DELETE", "FROM", "users", "WHERE", "user_id", "=", "4", "RETURNING", "user_id">>,
      <<"DELETE", "FROM", "ghosts">>,
      <<"DELETE", "FROM", "rooms", "WHERE", "room_id", "=", "2", ";", "DROP", "TABLE", "rooms">>,
      <<"DELETE", "FROM", "users", "WHERE", "username", "=", BadLiteral>>,
      <<"UPDATE", "users", "SET", "username", "=", "'neo'", "WHERE", "user_id", "=", "1">>,
      <<"UPDATE", "users", "SET", "username", "=", "'lisi'", "WHERE", "user_id", "=", "1">>,
      IntoRooms("INSERT", "7", "'attic'"),
      IntoRooms("REPLACE", "7", "'attic'"),
      <<"MERGE", "INTO", "rooms">>,
      <<"DROP", "TABLE", "users">>,
      <<"users">>,
      <<"-- note">> }

\* --------------------------------------------------------- case folding

\* str.upper() and str.lower(), on the lexemes of the inputs that they change.
Upper(w) ==
    CASE w = "select" -> "SELECT"
      [] w = "from" -> "FROM"
      [] w = "users" -> "USERS"
      [] OTHER -> w

Lower(w) ==
    CASE w = "USERS" -> "users"
      [] w = "Y" -> "y"
      [] w = "SELECT" -> "select"
      [] w = "FROM" -> "from"
      [] OTHER -> w

\* ------------------------------------------------------------- sqlparse

\* The ttype of a group node (sql.TokenList passes None to Token.__init__).
NoneT == "None"

DMLWords == {"SELECT", "INSERT", "UPDATE", "DELETE", "UPSERT", "REPLACE", "MERGE"}
DDLWords == {"DROP", "CREATE", "ALTER", "TRUNCATE"}
PlainKeywords ==
    {"FROM", "WHERE", "INTO", "SET", "VALUES", "TABLE", "RETURNING", "EXPLAIN", "OR"}
PunctuationMarks == {";", "(", ")", ","}
NumberWords == {"1", "2", "4", "7", "999999"}
StringWords == {"'neo'", "'lisi'", "'attic'", BadLiteral}

\* The lexer: the token type of one lexeme; keywords are looked up upper-cased
\* and whatever is no keyword is a Name.
TokenType(w) ==
    CASE w = " " -> "Whitespace"
      [] w = "-- note" -> "Comment.Single"
      [] w = "*" -> "Wildcard"
      [] w = "=" -> "Operator.Comparison"
      [] w \in PunctuationMarks -> "Punctuation"
      [] w \in NumberWords -> "Number.Integer"
      [] w \in StringWords -> "String.Single"
      [] Upper(w) \in DMLWords -> "Keyword.DML"
      [] Upper(w) \in DDLWords -> "Keyword.DDL"
      [] Upper(w) \in PlainKeywords -> "Keyword"
      [] OTHER -> "Name"

Lex(sql) == [i \in 1..Len(sql) |-> [ttype |-> TokenType(sql[i]), value |-> sql[i]]]

IsWhitespace(tok) == tok.ttype = "Whitespace"

\* StatementSplitter.process: a statement ends with the ";" and the whitespace
\* and line comments after it; what is left at the end is a statement unless
\* it is whitespace only.
EOS_TTYPE == {"Whitespace", "Comment.Single"}

PendingStatement(cur) ==
    IF cur # <<>> /\ ~(\A i \in 1..Len(cur) : IsWhitespace(cur[i])) THEN <<cur>> ELSE <<>>

RECURSIVE SplitFrom(_, _, _, _)
SplitFrom(toks, i, cur, consume_ws) ==
    IF i > Len(toks)
    THEN PendingStatement(cur)
    ELSE LET tok == toks[i]
             flush == consume_ws /\ tok.ttype \notin EOS_TTYPE
             cur1 == Append(IF flush THEN <<>> ELSE cur, tok)
             cw1 == (consume_ws /\ ~flush)
                    \/ (tok.ttype = "Punctuation" /\ tok.value = ";")
         IN  (IF flush THEN <<cur>> ELSE <<>>) \o SplitFrom(toks, i + 1, cur1, cw1)

\* grouping: a Name becomes an Identifier group and a comment a Comment group,
\* each a child of the statement with ttype None and the lexer's token below
\* it; every other token stays a child of the statement.
GroupNode(tok) ==
    CASE tok.ttype = "Name" ->
           [ttype |-> NoneT, value |-> tok.value, cls |-> "Identifier", tokens |-> <<tok>>]
      [] tok.ttype = "Comment.Single" ->
           [ttype |-> NoneT, value |-> tok.value, cls |-> "Comment", tokens |-> <<tok>>]
      [] OTHER ->
           [ttype |-> tok.ttype, value |-> tok.value, cls |-> "Token", tokens |-> <<>>]

Group(stmt) == [i \in 1..Len(stmt) |-> GroupNode(stmt[i])]

\* sqlparse.parse: the statements of the input, each as its child nodes.
ParseText(sql) ==
    LET stmts == SplitFrom(Lex(sql), 1, <<>>, FALSE)
    IN  [i \in 1..Len(stmts) |-> Group(stmts[i])]

\* The parse of every input, computed once.
ParseTable == [sql \in Queries |-> ParseText(sql)]

Parse(sql) == ParseTable[sql]

\* Statement.token_first(skip_ws=True, skip_cm=True): the first child that is
\* neither whitespace nor a comment, None when there is none.
RECURSIVE TokenFirstFrom(_, _)
TokenFirstFrom(children, i) ==
    IF i > Len(children)
    THEN [ttype |-> NoneT, value |-> "", cls |-> "NoToken", tokens |-> <<>>]
    ELSE IF children[i].ttype = "Whitespace" \/ children[i].cls = "Comment"
         THEN TokenFirstFrom(children, i + 1)
         ELSE children[i]

TokenFirst(children) == TokenFirstFrom(children, 1)

\* Statement.flatten: the ungrouped tokens, each with the class of its parent.
RECURSIVE Flatten(_)
Flatten(children) ==
    IF children = <<>>
    THEN <<>>
    ELSE LET n == Head(children)
             own == IF n.cls = "Token"
                    THEN <<[ttype |-> n.ttype, value |-> n.value, parent |-> "Statement"]>>
                    ELSE [i \in 1..Len(n.tokens) |->
                            [ttype |-> n.tokens[i].ttype, value |-> n.tokens[i].value,
                             parent |-> n.cls]]
         IN  own \o Flatten(Tail(children))

RECURSIVE FlattenAll(_)
FlattenAll(parsed) ==
    IF parsed = <<>> THEN <<>> ELSE Flatten(Head(parsed)) \o FlattenAll(Tail(parsed))

\* The test of _extract_table_names on one flattened token.
IsTableToken(tok) ==
    tok.ttype = NoneT /\ tok.parent = "Statement" /\ Lower(tok.value) \in Vocabulary

\* _extract_table_names: list(set(table_names)).
TableNamesIn(parsed) ==
    LET flat == FlattenAll(parsed)
    IN  {Lower(flat[i].value) : i \in {j \in 1..Len(flat) : IsTableToken(flat[j])}}

TableNamesTable == [sql \in Queries |-> TableNamesIn(ParseText(sql))]

extract_table_names(sql) == TableNamesTable[sql]

\* ------------------------------------------------------------- sqlite3
\* The engine behind self.conn and self.cursor, as the sqlite3 module of
\* CPython 3.11 over SQLite 3.40 behaves on the statements of Queries.
\* An engine state is [view, durable, inTx, cursor]: what the connection
\* sees, what is committed to the file, whether the connection has an open
\* transaction, and the cursor.  A database is [tables, rows].

NoException == "none"
SqliteErrors ==
    {"sqlite3.OperationalError", "sqlite3.IntegrityError", "sqlite3.ProgrammingError"}

\* isinstance(e, sqlite3.Error), then isinstance(e, Exception).
IsSqliteError(exc) == exc \in SqliteErrors
IsException(exc) == exc # NoException

EmptyCursor == [description |-> <<>>, rows |-> <<>>, rowcount |-> -1, active |-> FALSE]

NumValue(w) ==
    CASE w = "1" -> 1 [] w = "2" -> 2 [] w = "4" -> 4
      [] w = "7" -> 7 [] w = "999999" -> 999999

StrValue(w) ==
    CASE w = "'neo'" -> "neo" [] w = "'lisi'" -> "lisi" [] w = "'attic'" -> "attic"

Value(w) == IF w \in NumberWords THEN NumValue(w) ELSE StrValue(w)

\* The statement text reaches the engine as UTF-8.
Encodable(sql) == \A i \in 1..Len(sql) : sql[i] # BadLiteral

IsBlank(w) == TokenType(w) \in {"Whitespace", "Comment.Single"}

SqlWords(sql) == SelectSeq(sql, LAMBDA w : ~IsBlank(w))

RECURSIVE FirstSemicolon(_, _)
FirstSemicolon(ws, i) ==
    IF i > Len(ws) THEN 0 ELSE IF ws[i] = ";" THEN i ELSE FirstSemicolon(ws, i + 1)

\* What sqlite3_prepare compiles, and the tail it leaves.
FirstStatement(ws) ==
    LET k == FirstSemicolon(ws, 1) IN IF k = 0 THEN ws ELSE SubSeq(ws, 1, k - 1)

StatementTail(ws) ==
    LET k == FirstSemicolon(ws, 1) IN IF k = 0 THEN <<>> ELSE SubSeq(ws, k + 1, Len(ws))

ColumnIndex(t, c) == CHOOSE i \in 1..Len(Columns(t)) : Columns(t)[i] = c
HasColumn(t, c) == \E i \in 1..Len(Columns(t)) : Columns(t)[i] = c

NoPlan ==
    [ok |-> FALSE, msg |-> <<"syntax error">>, op |-> "none", table |-> "",
     col |-> "", val |-> "", wcol |-> "", wval |-> "", returning |-> ""]

\* The grammar of the statements the model runs.
ParseStatement(w) ==
    LET n == Len(w)
        K(i) == Upper(w[i])
        plan(op, t, c, v, wc, wv, ret) ==
            [ok |-> TRUE, msg |-> <<>>, op |-> op, table |-> Lower(t), col |-> c,
             val |-> v, wcol |-> wc, wval |-> wv, returning |-> ret]
    IN  CASE n = 4 /\ K(1) = "SELECT" /\ w[2] = "*" /\ K(3) = "FROM" ->
               plan("select_all", w[4], "", "", "", "", "")
          [] n = 4 /\ K(1) = "SELECT" /\ TokenType(w[2]) = "Name" /\ K(3) = "FROM" ->
               plan("select_col", w[4], w[2], "", "", "", "")
          [] n = 7 /\ K(1) = "SELECT" /\ K(2) = "COUNT" /\ w[3] = "(" /\ w[4] = "*"
                   /\ w[5] = ")" /\ K(6) = "FROM" ->
               plan("select_count", w[7], "", "", "", "", "")
          [] n = 3 /\ K(1) = "DELETE" /\ K(2) = "FROM" ->
               plan("delete", w[3], "", "", "", "", "")
          [] n \in {7, 9} /\ K(1) = "DELETE" /\ K(2) = "FROM" /\ K(4) = "WHERE"
                   /\ w[6] = "=" /\ (n = 9 => K(8) = "RETURNING") ->
               plan("delete", w[3], "", "", w[5], w[7], IF n = 9 THEN w[9] ELSE "")
          [] n = 10 /\ K(1) = "UPDATE" /\ K(3) = "SET" /\ w[5] = "=" /\ K(7) = "WHERE"
                    /\ w[9] = "=" ->
               plan("update", w[2], w[4], w[6], w[8], w[10], "")
          [] n = 14 /\ K(1) \in {"INSERT", "REPLACE"} /\ K(2) = "INTO" /\ w[4] = "("
                    /\ w[6] = "," /\ w[8] = ")" /\ K(9) = "VALUES" /\ w[10] = "("
                    /\ w[12] = "," /\ w[14] = ")" ->
               plan(IF K(1) = "INSERT" THEN "insert" ELSE "replace",
                    w[3], <<w[5], w[7]>>, <<w[11], w[13]>>, "", "", "")
          [] OTHER -> NoPlan

\* Name resolution against the catalog the connection sees.
Resolve(db, p) ==
    LET cols == (IF p.op \in {"select_col", "update"} THEN {p.col} ELSE {})
                \cup (IF p.op \in {"insert", "replace"} THEN {p.col[1], p.col[2]} ELSE {})
                \cup (IF p.wcol # "" THEN {p.wcol} ELSE {})
                \cup (IF p.returning # "" THEN {p.returning} ELSE {})
        missing == {c \in cols : ~HasColumn(p.table, c)}
    IN  IF ~p.ok THEN p
        ELSE IF p.table \notin db.tables
             THEN [p EXCEPT !.ok = FALSE, !.msg = <<"no such table", p.table>>]
        ELSE IF missing # {}
             THEN [p EXCEPT !.ok = FALSE, !.msg = <<"no such column", CHOOSE c \in missing : TRUE>>]
        ELSE p

\* The engine's reading of every input, computed once.
PreparedTable ==
    [sql \in Queries |->
        [encodable |-> Encodable(sql),
         statement |-> ParseStatement(FirstStatement(SqlWords(sql))),
         tail |-> StatementTail(SqlWords(sql))]]

Compile(db, sql) == Resolve(db, PreparedTable[sql].statement)

IsWrite(p) == p.op \in {"delete", "update", "insert", "replace"}

\* The rows a WHERE clause selects.
Matched(rows, p) ==
    IF p.wcol = "" THEN rows
    ELSE {r \in rows : r[ColumnIndex(p.table, p.wcol)] = Value(p.wval)}

NewRow(p) ==
    [i \in 1..2 |-> Value(p.val[CHOOSE j \in 1..2 : p.col[j] = Columns(p.table)[i]])]

Conflicts(rows, p, row) ==
    {r \in rows : \E u \in UniqueColumns(p.table) : r[u] = row[u]}

\* The table after the statement, constraints not yet looked at.
Applied(rows, p) ==
    CASE p.op = "delete" -> rows \ Matched(rows, p)
      [] p.op = "update" ->
           (rows \ Matched(rows, p))
           \cup {[r EXCEPT ![ColumnIndex(p.table, p.col)] = Value(p.val)] : r \in Matched(rows, p)}
      [] p.op = "insert" -> rows \cup {NewRow(p)}
      [] p.op = "replace" -> (rows \ Conflicts(rows, p, NewRow(p))) \cup {NewRow(p)}
      [] OTHER -> rows

\* A PRIMARY KEY or UNIQUE constraint the statement would break (ON CONFLICT
\* ABORT: the statement then changes nothing).
Violates(rows, p) ==
    CASE p.op = "insert" -> Conflicts(rows, p, NewRow(p)) # {}
      [] p.op = "update" ->
           LET after == Applied(rows, p)
           IN  \/ Cardinality(after) < Cardinality(rows)
               \/ \E u \in UniqueColumns(p.table) :
                     Cardinality({r[u] : r \in after}) < Cardinality(after)
      [] OTHER -> FALSE

\* sqlite3_changes() of the statement.
Changes(rows, p) ==
    CASE p.op \in {"delete", "update"} -> Cardinality(Matched(rows, p))
      [] p.op \in {"insert", "replace"} -> 1
      [] OTHER -> 0

\* Rows in rowid order, as a full scan returns them.
RECURSIVE SortRows(_)
SortRows(rows) ==
    IF rows = {} THEN <<>>
    ELSE LET first == CHOOSE r \in rows : \A q \in rows : r[1] <= q[1]
         IN  <<first>> \o SortRows(rows \ {first})

Project(rowseq, idx) == [i \in 1..Len(rowseq) |-> <<rowseq[i][idx]>>]

\* The result set and the result descriptor of a statement.
ResultRows(rows, p) ==
    CASE p.op = "select_all" -> SortRows(rows)
      [] p.op = "select_col" -> Project(SortRows(rows), ColumnIndex(p.table, p.col))
      [] p.op = "select_count" -> << <<Cardinality(rows)>> >>
      [] p.op = "delete" /\ p.returning # "" ->
           Project(SortRows(Matched(rows, p)), ColumnIndex(p.table, p.returning))
      [] OTHER -> <<>>

Description(p) ==
    CASE p.op = "select_all" -> Columns(p.table)
      [] p.op = "select_col" -> <<p.col>>
      [] p.op = "select_count" -> <<"COUNT(*)">>
      [] p.op = "delete" /\ p.returning # "" -> <<p.returning>>
      [] OTHER -> <<>>

PlanColumns == <<"id", "parent", "notused", "detail">>
PlanRows(p) == << <<2, 0, 0, p.table>> >>

Raised(s, exc, msg) == [s |-> s, exc |-> exc, msg |-> msg, changes |-> 0]

OnCursor(s, description, rows, rowcount, active) ==
    [s EXCEPT !.cursor = [description |-> description, rows |-> rows,
                          rowcount |-> rowcount, active |-> active]]

\* A writing statement stepped once: the table changed, and a RETURNING
\* statement with rows to return left in progress, reporting no rowcount yet.
Written(s, p, rows, out) ==
    [s |-> OnCursor([s EXCEPT !.view.rows[p.table] = Applied(rows, p)],
                    Description(p), out,
                    IF out # <<>> THEN 0 ELSE Changes(rows, p), out # <<>>),
     exc |-> NoException, msg |-> <<>>, changes |-> Changes(rows, p)]

\* The prepared statement p stepped on the rows of its table; begun is the
\* connection with the transaction that a writing statement begins.
Stepped(s, begun, p, rows, explain) ==
    IF explain
    THEN Raised(OnCursor(s, PlanColumns, PlanRows(p), -1, FALSE), NoException, <<>>)
    ELSE IF ~IsWrite(p)
    THEN Raised(OnCursor(s, Description(p), ResultRows(rows, p), -1, FALSE), NoException, <<>>)
    ELSE IF Violates(rows, p)
    THEN Raised(begun, "sqlite3.IntegrityError", <<"constraint failed", p.table>>)
    ELSE Written(begun, p, rows, ResultRows(rows, p))

\* The text encoded and its first statement prepared as p, a second statement
\* refused; cleared is the connection with the cursor reset.
Prepared(s, cleared, text, p, explain) ==
    IF ~text.encodable
    THEN Raised(s, "UnicodeEncodeError", <<"surrogates not allowed">>)
    ELSE IF ~p.ok
    THEN Raised(cleared, "sqlite3.OperationalError", p.msg)
    ELSE IF text.tail # <<>>
    THEN Raised(cleared, "sqlite3.ProgrammingError",
                <<"You can only execute one statement at a time.">>)
    ELSE Stepped(cleared, [cleared EXCEPT !.inTx = TRUE], p, s.view.rows[p.table], explain)

\* cursor.execute(sql), with explain for the EXPLAIN QUERY PLAN prefix.
CursorExecute(s, sql, explain) ==
    Prepared(s, [s EXCEPT !.cursor = EmptyCursor], PreparedTable[sql],
             Compile(s.view, sql), explain)

\* cursor.fetchall(): the rows, and the cursor with its statement finished.
FetchAll(s) == [s EXCEPT !.cursor.rows = <<>>, !.cursor.active = FALSE]

\* conn.commit(): refused while a writing statement is in progress.
Commit(s) ==
    IF ~s.inTx
    THEN Raised(s, NoException, <<>>)
    ELSE IF s.cursor.active
    THEN Raised(s, "sqlite3.OperationalError",
                <<"cannot commit transaction - SQL statements in progress">>)
    ELSE Raised([s EXCEPT !.durable = s.view, !.inTx = FALSE], NoException, <<>>)

\* ------------------------------------------------------- the tool's state

VARIABLES
    conn,      \* self.conn and self.cursor: "none", "open" or "closed"
    view,      \* the database as the connection sees it
    durable,   \* the database as committed to the file
    inTx,      \* the connection has an open transaction
    cursor,    \* self.cursor: description, rows not yet fetched, rowcount
    exited,    \* main has run its finally clause
    connections,  \* how many times sqlite3.connect and conn.close() have run
    call,      \* the operation that ran last: its input, whether it repeats the
               \* call before it, the engine operations it made, the statement
               \* type validation found, what the engine reported
    result     \* what that operation returned or raised

vars == <<conn, view, durable, inTx, cursor, exited, connections, call, result>>

EmptyDb == [tables |-> {}, rows |-> [t \in DataTables |-> {}]]

\* sqlite_master lists the tables in the order of their creation.
CatalogOrder ==
    <<"users", SqliteSequence, "devices", "usage_logs", "security_events",
      "user_feedback", "rooms">>

Engine == [view |-> view, durable |-> durable, inTx |-> inTx, cursor |-> cursor]

\* ----------------------------------------------------------- envelopes

NoError == [tag |-> "", names |-> {}, msg |-> <<>>]
NoSuggestion == [tag |-> "", tables |-> {}]

\* A returned dict: `has` is its key set, the other fields the values of the
\* keys it has; `raised` names an exception that left the method instead.
Blank ==
    [has |-> {}, valid |-> FALSE, error |-> NoError, suggestion |-> NoSuggestion,
     statement_type |-> "", tables |-> {}, results |-> <<>>, columns |-> <<>>,
     row_count |-> 0, query_plan |-> <<>>, affected_rows |-> 0, raised |-> NoException]

Failure(tag, names, msg, stag, stables) ==
    [Blank EXCEPT !.has = {"valid", "error", "suggestion"},
                  !.error = [tag |-> tag, names |-> names, msg |-> msg],
                  !.suggestion = [tag |-> stag, tables |-> stables]]

Escaped(exc) == [Blank EXCEPT !.raised = exc]

NoCall ==
    [op |-> "none", sql |-> <<>>, connOpen |-> FALSE, repeated |-> FALSE, log |-> <<>>,
     kind |-> "", executed |-> FALSE, changes |-> 0, validation |-> Blank]

\* ------------------------------------------------------ _get_existing_tables

\* SELECT name FROM sqlite_master WHERE type='table', fetched whole; without a
\* cursor the attribute lookup on None raises.
get_existing_tables(c, s) ==
    IF c # "open"
    THEN [s |-> s, exc |-> "AttributeError", msg |-> <<"'NoneType' object has no attribute 'execute'">>,
          tables |-> {}]
    ELSE [s |-> [s EXCEPT !.cursor = [description |-> <<"name">>, rows |-> <<>>,
                                      rowcount |-> -1, active |-> FALSE]],
          exc |-> NoException, msg |-> <<>>, tables |-> s.view.tables]

\* ------------------------------------------------------------ validate_sql

\* The test written as `if parsed is None`, which no parse result passes.
IsEmptyParseNone(parsed) == FALSE

\* `if not parsed`
IsEmptyParse(parsed) == parsed = <<>>

\* `first_token and first_token.ttype is tokens.Keyword.DML`
IsDML(first) == first.cls # "NoToken" /\ first.ttype = "Keyword.DML"

\* `if statement_type == 'SELECT'`: the statement types that are probed.
Probed(statement_type) == statement_type = "SELECT"

\* The probe running the statement itself, whatever its type.
ProbeByRunning(s, statement_type, sql) == CursorExecute(s, sql, FALSE)

\* The syntax probe: EXPLAIN QUERY PLAN of the statement, which runs nothing.
Probe(s, statement_type, sql) ==
    IF Probed(statement_type) THEN CursorExecute(s, sql, TRUE) ELSE Raised(s, NoException, <<>>)

ValidationFailed(exc, msg) ==
    Failure("ValidationFailed", {}, <<exc>> \o msg, "CheckFormat", {})

Outcome(res, s, log, kind) == [result |-> res, s |-> s, log |-> log, kind |-> kind]

\* Lines 271-287: the probe's failure, or the statement accepted.
ValidateSyntax(statement_type, table_names, probe, log) ==
    IF IsSqliteError(probe.exc)
    THEN Outcome(Failure("SyntaxError", {}, probe.msg, "CheckNamesAndSyntax", {}),
                 probe.s, log, statement_type)
    ELSE IF IsException(probe.exc)
    THEN Outcome(ValidationFailed(probe.exc, probe.msg), probe.s, log, statement_type)
    ELSE Outcome([Blank EXCEPT !.has = {"valid", "message", "statement_type", "tables"},
                               !.valid = TRUE,
                               !.statement_type = statement_type,
                               !.tables = table_names],
                 probe.s, log, statement_type)

\* Lines 259-269: the names extracted against the catalog.
ValidateTables(sql, statement_type, table_names, existing) ==
    IF IsException(existing.exc)
    THEN Outcome(ValidationFailed(existing.exc, existing.msg), existing.s,
                 <<"tables">>, statement_type)
    ELSE IF table_names \ existing.tables # {}
    THEN Outcome(Failure("TableNotFound", table_names \ existing.tables, <<>>,
                         "AvailableTables", existing.tables),
                 existing.s, <<"tables">>, statement_type)
    ELSE ValidateSyntax(statement_type, table_names,
                        Probe(existing.s, statement_type, sql),
                        IF Probed(statement_type) THEN <<"tables", "probe">> ELSE <<"tables">>)

\* Lines 248-257: the first token of the first statement.
ValidateStatementType(c, s, sql, first_token) ==
    IF ~IsDML(first_token)
    THEN Outcome(Failure("UnrecognizedStatementType", {}, <<>>,
                         "UseSelectInsertUpdateDelete", {}), s, <<>>, "")
    ELSE ValidateTables(sql, Upper(first_token.value), extract_table_names(sql),
                        get_existing_tables(c, s))

\* validate_sql: the mapping returned, the connection after the call, the
\* engine calls made and the statement type found.  `parsed[0]` of an empty
\* parse raises IndexError.
validate_sql(c, s, sql) ==
    IF IsEmptyParse(Parse(sql))
    THEN Outcome(Failure("EmptyOrUnparseable", {}, <<>>, "EnterValidSql", {}), s, <<>>, "")
    ELSE IF Parse(sql) = <<>>
    THEN Outcome(ValidationFailed("IndexError", <<"tuple index out of range">>), s, <<>>, "")
    ELSE ValidateStatementType(c, s, sql, TokenFirst(Parse(sql)[1]))

\* ----------------------------------------------------------- execute_query

\* The early return left out.
RejectedNever(validation) == FALSE

\* `if not validation_result['valid']`
Rejected(validation) == ~validation.valid

\* The column names read before the statement has run, off the plan.
ColumnNamesOfPlan(planCursor, queryCursor) == planCursor.description

\* `[description[0] for description in self.cursor.description]`, read after
\* the statement itself has run on the cursor.
ColumnNames(planCursor, queryCursor) == queryCursor.description

\* `len(results)`
RowCount(results) == Len(results)

\* `self.cursor.rowcount`
AffectedRows(c) == c.rowcount

\* `except sqlite3.Error` of execute_query: whatever else is raised leaves it.
ExecutionFailure(exc, msg) ==
    IF IsSqliteError(exc)
    THEN Failure("ExecutionFailed", {}, msg, "CheckStatement", {})
    ELSE Escaped(exc)

Done(res, s, log, kind, executed, changes, validation) ==
    [result |-> res, s |-> s, log |-> log, kind |-> kind, executed |-> executed,
     changes |-> changes, validation |-> validation]

\* Lines 332-349: the statement run after its plan, the rows fetched.
SelectResult(v, plan, query) ==
    IF IsException(query.exc)
    THEN Done(ExecutionFailure(query.exc, query.msg), query.s,
              v.log \o <<"plan", "execute">>, v.kind, FALSE, 0, v.result)
    ELSE Done([Blank EXCEPT
                 !.has = {"valid", "statement_type", "results", "columns",
                          "row_count", "execution_time", "query_plan"},
                 !.valid = TRUE, !.statement_type = "SELECT",
                 !.results = query.s.cursor.rows,
                 !.columns = ColumnNames(plan.s.cursor, query.s.cursor),
                 !.row_count = RowCount(query.s.cursor.rows),
                 !.query_plan = plan.s.cursor.rows],
              FetchAll(query.s), v.log \o <<"plan", "execute">>, v.kind, TRUE, 0, v.result)

\* Lines 326-333: the plan fetched, then the statement itself.
ExecuteSelect(sql, v, plan) ==
    IF IsException(plan.exc)
    THEN Done(ExecutionFailure(plan.exc, plan.msg), plan.s,
              v.log \o <<"plan">>, v.kind, FALSE, 0, v.result)
    ELSE SelectResult(v, plan, CursorExecute(FetchAll(plan.s), sql, FALSE))

\* Lines 353-364: the commit and the rowcount.
ChangeResult(v, run, commit) ==
    IF IsException(commit.exc)
    THEN Done(ExecutionFailure(commit.exc, commit.msg), commit.s,
              v.log \o <<"execute", "commit">>, v.kind, TRUE, run.changes, v.result)
    ELSE Done([Blank EXCEPT
                 !.has = {"valid", "statement_type", "affected_rows",
                          "execution_time", "message"},
                 !.valid = TRUE, !.statement_type = v.result.statement_type,
                 !.affected_rows = AffectedRows(commit.s.cursor)],
              commit.s, v.log \o <<"execute", "commit">>, v.kind, TRUE, run.changes, v.result)

\* Lines 350-353: every other statement type is run and committed.
ExecuteChange(v, run) ==
    IF IsException(run.exc)
    THEN Done(ExecutionFailure(run.exc, run.msg), run.s,
              v.log \o <<"execute">>, v.kind, FALSE, 0, v.result)
    ELSE ChangeResult(v, run, Commit(run.s))

\* The branch taken on the statement type without the early return.
ExecuteUnvalidated(sql, v) ==
    IF v.kind = "SELECT"
    THEN ExecuteSelect(sql, v, CursorExecute(v.s, sql, TRUE))
    ELSE ExecuteChange(v, CursorExecute(v.s, sql, FALSE))

\* Lines 320-326: the early return, then the branch on
\* validation_result['statement_type'].
ExecuteValidated(sql, v) ==
    IF Rejected(v.result)
    THEN Done(v.result, v.s, v.log, v.kind, FALSE, 0, v.result)
    ELSE IF "statement_type" \notin v.result.has
    THEN Done(Escaped("KeyError"), v.s, v.log, v.kind, FALSE, 0, v.result)
    ELSE IF v.result.statement_type = "SELECT"
    THEN ExecuteSelect(sql, v, CursorExecute(v.s, sql, TRUE))
    ELSE ExecuteChange(v, CursorExecute(v.s, sql, FALSE))

execute_query(c, s, sql) == ExecuteValidated(sql, validate_sql(c, s, sql))

\* ----------------------------------------------------- initialize_database

Elements(seq) == {seq[i] : i \in 1..Len(seq)}

\* executemany of INSERT OR IGNORE: a seed row that meets a row with its name
\* is skipped.  It runs on a table that is empty or still holds its seed
\* rows, where AUTOINCREMENT gives the seed rows the keys written here.
InsertOrIgnore(rows, t, seed) ==
    rows \cup {r \in seed : \A q \in rows : \A u \in UniqueColumns(t) : q[u] # r[u]}

NextKey(rows) ==
    IF rows = {} THEN 1 ELSE 1 + (CHOOSE k \in {r[1] : r \in rows} : \A r \in rows : r[1] <= k)

\* executemany of the plain INSERT INTO usage_logs: always new rows.
InsertLogs(rows) ==
    rows \cup {<<NextKey(rows) + i - 1>> : i \in 1..SeedLogs}

\* The file after CREATE TABLE IF NOT EXISTS for the six tables, the commit,
\* _insert_sample_data and its commit.
Initialized(db) ==
    [tables |-> db.tables \cup Elements(CatalogOrder),
     rows |-> [t \in DataTables |->
                 CASE t = "rooms" -> InsertOrIgnore(db.rows[t], t, SeedRooms)
                   [] t = "users" -> InsertOrIgnore(db.rows[t], t, SeedUsers)
                   [] t = "usage_logs" -> InsertLogs(db.rows[t])]]

\* sqlite3.connect and conn.cursor(), then the schema and the sample data.
\* Nothing reads the new cursor before its next execute.
initialize_database(s) ==
    LET db == Initialized(s.durable)
    IN  [view |-> db, durable |-> db, inTx |-> FALSE, cursor |-> EmptyCursor]

\* ------------------------------------------------------------ reset_system

\* `confirm == 'y' or confirm == 'yes'` on the lower-cased answer.
Confirmed(answer) == Lower(answer) \in {"y", "yes"}

\* DROP TABLE IF EXISTS: outside a transaction the drop is committed at once;
\* the engine refuses to drop its own sqlite_sequence.
DropTable(s, t) ==
    IF t = SqliteSequence
    THEN Raised([s EXCEPT !.cursor = EmptyCursor], "sqlite3.OperationalError",
                <<"table sqlite_sequence may not be dropped">>)
    ELSE LET db == [tables |-> s.view.tables \ {t},
                    rows |-> [d \in DataTables |-> IF d = t THEN {} ELSE s.view.rows[d]]]
         IN  Raised([s EXCEPT !.view = db,
                              !.durable = IF s.inTx THEN s.durable ELSE db,
                              !.cursor = EmptyCursor],
                    NoException, <<>>)

\* `for table in tables: self.cursor.execute(DROP ...)`, up to the first
\* exception.
RECURSIVE DropTables(_, _)
DropTables(s, tables) ==
    IF tables = <<>>
    THEN Raised(s, NoException, <<>>)
    ELSE LET d == DropTable(s, Head(tables))
         IN  IF IsException(d.exc) THEN d ELSE DropTables(d.s, Tail(tables))

\* Line 541: after the commit the schema and the sample data are made anew.
ResetCommitted(c, commit) ==
    IF IsException(commit.exc)
    THEN [s |-> commit.s, conn |-> c, log |-> <<"tables", "drop", "commit">>]
    ELSE [s |-> initialize_database(commit.s), conn |-> "open",
          log |-> <<"tables", "drop", "commit", "initialize">>]

\* Line 537
ResetDropped(c, dropped) ==
    IF IsException(dropped.exc)
    THEN [s |-> dropped.s, conn |-> c, log |-> <<"tables", "drop">>]
    ELSE ResetCommitted(c, Commit(dropped.s))

\* Lines 533-535: the tables listed, then dropped in the catalog's order.
ResetTables(c, existing) ==
    IF IsException(existing.exc)
    THEN [s |-> existing.s, conn |-> c, log |-> <<"tables">>]
    ELSE ResetDropped(c, DropTables(existing.s,
                                    SelectSeq(CatalogOrder, LAMBDA t : t \in existing.tables)))

\* The sqlite3.connect of the initialize_database that reset_system runs, on
\* a tool whose connection is left as it is, neither closed nor reused.
Reconnected(log) == IF "initialize" \in Elements(log) THEN 1 ELSE 0

reset_system(c, s, answer) ==
    IF ~Confirmed(answer)
    THEN [s |-> s, conn |-> c, log |-> <<>>]
    ELSE ResetTables(c, get_existing_tables(c, s))

\* ---------------------------------------------------------------- actions

Answers == {"y", "Y", "yes", "n"}

SeededDb == Initialized(EmptyDb)

\* A tool just constructed (conn and cursor None) over a database file that
\* is absent or empty, or that an earlier run has initialized.
Init ==
    /\ conn = "none"
    /\ durable \in {EmptyDb, SeededDb}
    /\ view = durable
    /\ inTx = FALSE
    /\ cursor = EmptyCursor
    /\ exited = FALSE
    /\ connections = [opened |-> 0, closed |-> 0]
    /\ call = NoCall
    /\ result = Blank

Install(s) ==
    /\ view' = s.view
    /\ durable' = s.durable
    /\ inTx' = s.inTx
    /\ cursor' = s.cursor

\* tool.initialize_database() of main, on a tool not yet connected.
InitializeDatabase ==
    /\ ~exited
    /\ conn = "none"
    /\ Install(initialize_database(Engine))
    /\ conn' = "open"
    /\ connections' = [connections EXCEPT !.opened = @ + 1]
    /\ call' = [NoCall EXCEPT !.op = "initialize_database"]
    /\ result' = Blank
    /\ UNCHANGED exited

\* tool.conn = sqlite3.connect(args.db); tool.cursor = tool.conn.cursor()
Connect ==
    /\ ~exited
    /\ conn = "none"
    /\ Install([view |-> durable, durable |-> durable, inTx |-> FALSE, cursor |-> EmptyCursor])
    /\ conn' = "open"
    /\ connections' = [connections EXCEPT !.opened = @ + 1]
    /\ call' = [NoCall EXCEPT !.op = "connect"]
    /\ result' = Blank
    /\ UNCHANGED exited

ValidateSql(sql) ==
    /\ ~exited
    /\ \E v \in {validate_sql(conn, Engine, sql)} :
           /\ Install(v.s)
           /\ call' = [NoCall EXCEPT !.op = "validate_sql", !.sql = sql,
                                     !.connOpen = (conn = "open"),
                                     !.repeated = (call.op = "validate_sql" /\ call.sql = sql),
                                     !.log = v.log,
                                     !.kind = v.kind, !.validation = v.result]
           /\ result' = v.result
    /\ UNCHANGED <<conn, exited, connections>>

ExecuteQuery(sql) ==
    /\ ~exited
    /\ \E e \in {execute_query(conn, Engine, sql)} :
           /\ Install(e.s)
           /\ call' = [NoCall EXCEPT !.op = "execute_query", !.sql = sql,
                                     !.connOpen = (conn = "open"), !.log = e.log,
                                     !.kind = e.kind, !.executed = e.executed,
                                     !.changes = e.changes, !.validation = e.validation]
           /\ result' = e.result
    /\ UNCHANGED <<conn, exited, connections>>

ResetSystem(answer) ==
    /\ ~exited
    /\ \E r \in {reset_system(conn, Engine, answer)} :
           /\ Install(r.s)
           /\ conn' = r.conn
           /\ connections' = [connections EXCEPT !.opened = @ + Reconnected(r.log)]
           /\ call' = [NoCall EXCEPT !.op = "reset_system", !.sql = <<answer>>,
                                     !.connOpen = (conn = "open"), !.log = r.log]
    /\ result' = Blank
    /\ UNCHANGED exited

\* tool.close() in the finally clause of main: an open transaction is lost.
Close ==
    /\ ~exited
    /\ exited' = TRUE
    /\ conn' = IF conn = "open" THEN "closed" ELSE conn
    /\ connections' = [connections EXCEPT !.closed = @ + (IF conn = "open" THEN 1 ELSE 0)]
    /\ view' = durable
    /\ inTx' = FALSE
    /\ call' = [NoCall EXCEPT !.op = "close"]
    /\ result' = Blank
    /\ UNCHANGED <<durable, cursor>>

Next ==
    \/ InitializeDatabase
    \/ Connect
    \/ \E sql \in Queries : ValidateSql(sql)
    \/ \E sql \in Queries : ExecuteQuery(sql)
    \/ \E answer \in Answers : ResetSystem(answer)
    \/ Close

Spec == Init /\ [][Next]_vars

\* ----------------------------------------------------------------- claims

RecognizedKinds == {"SELECT", "INSERT", "UPDATE", "DELETE"}

Validated == call.op \in {"validate_sql", "execute_query"}

\* The input is the empty string or whitespace only.
IsBlankInput(sql) == \A i \in 1..Len(sql) : sql[i] = " "

\* The first lexeme of the input that is neither whitespace nor a comment,
\* upper-cased; "" when there is none.
FirstWord(sql) == IF SqlWords(sql) = <<>> THEN "" ELSE Upper(SqlWords(sql)[1])

\* The vocabulary names that occur in the input as identifiers.
VocabularyNamesIn(sql) ==
    {Lower(sql[i]) : i \in {j \in 1..Len(sql) :
                              TokenType(sql[j]) = "Name" /\ Lower(sql[j]) \in Vocabulary}}

\* The names the input has where a statement names its table.
ReferencedNames(sql) ==
    {Lower(sql[i + 1]) : i \in {j \in 1..(Len(sql) - 1) :
                                  /\ Upper(sql[j]) \in {"FROM", "INTO", "UPDATE"}
                                  /\ TokenType(sql[j + 1]) = "Name"}}

ScenarioA == <<"SELECT", "*", "FROM", "users">>
ScenarioB == <<"SELECT", "*", "FROM", "ghosts">>
ScenarioD == <<"DELETE", "FROM", "usage_logs", "WHERE", "log_id", "=", "999999">>

\* C1: on an open store validate_sql returns valid=true exactly when the
\* statement type it returns is SELECT, INSERT, UPDATE or DELETE and every
\* table it returns is in the catalog of that moment.
C1_ValidIffKindAndTablesKnown ==
    (call.op = "validate_sql" /\ call.connOpen) =>
        (result.valid <=>
            (/\ "statement_type" \in result.has
             /\ result.statement_type \in RecognizedKinds
             /\ result.tables \subseteq view.tables))

\* C2: an accepted statement's returned tables are the vocabulary names that
\* occur in it as identifiers, and SELECT * FROM users on an initialized store
\* is accepted as a SELECT over exactly {users}.  Stated of the accepted
\* statements of the four types, those whose acceptance is not in question.
C2_TablesAreTheVocabularyNames ==
    /\ (/\ call.op = "validate_sql" /\ result.valid
        /\ result.statement_type \in RecognizedKinds) =>
           result.tables = VocabularyNamesIn(call.sql)
    /\ (/\ call.op = "validate_sql" /\ call.connOpen /\ call.sql = ScenarioA
        /\ Vocabulary \subseteq view.tables) =>
           (result.valid /\ result.statement_type = "SELECT" /\ result.tables = {"users"})

\* C3: an input that starts with SELECT, INSERT, UPDATE or DELETE and names a
\* table that is not in the catalog is rejected with the unknown-table error
\* listing exactly the unknown names and a suggestion listing the catalog.
C3_UnknownTableRejected ==
    (/\ call.op = "validate_sql" /\ call.connOpen
     /\ FirstWord(call.sql) \in RecognizedKinds
     /\ ReferencedNames(call.sql) \ view.tables # {}) =>
        (/\ ~result.valid
         /\ result.error.tag = "TableNotFound"
         /\ result.error.names = ReferencedNames(call.sql) \ view.tables
         /\ result.suggestion.tag = "AvailableTables"
         /\ result.suggestion.tables = view.tables)

\* C4: a non-empty input whose first word is not SELECT, INSERT, UPDATE or
\* DELETE is rejected as an unrecognized statement type, with the suggestion
\* to use one of the four, and execute_query never runs it.
C4_OtherKindsRejected ==
    (/\ Validated /\ call.connOpen
     /\ ~IsBlankInput(call.sql)
     /\ FirstWord(call.sql) \notin RecognizedKinds) =>
        (/\ ~call.validation.valid
         /\ call.validation.error.tag = "UnrecognizedStatementType"
         /\ call.validation.suggestion.tag = "UseSelectInsertUpdateDelete"
         /\ ~result.valid
         /\ "execute" \notin Elements(call.log))

\* C5: the empty string and a whitespace-only string are rejected with the
\* empty-or-unparseable error, not with any other.
C5_BlankInputIsEmptyError ==
    (Validated /\ IsBlankInput(call.sql)) =>
        (/\ ~call.validation.valid
         /\ call.validation.error.tag = "EmptyOrUnparseable"
         /\ result = call.validation)

C5_Witness ==
    /\ call.op = "validate_sql" /\ call.sql = <<" ">>
    /\ result.error.tag = "EmptyOrUnparseable"

\* C6: when validate_sql rejects the input, execute_query returns that
\* outcome as it is and sends the statement to the engine neither to run nor
\* to commit: the contents and the catalog, seen and committed, stay as they
\* were.
C6_RejectedIsNotExecuted ==
    [][(call'.op = "execute_query" /\ ~validate_sql(conn, Engine, call'.sql).result.valid) =>
          (/\ result' = validate_sql(conn, Engine, call'.sql).result
           /\ Elements(call'.log) \cap {"plan", "execute", "commit"} = {}
           /\ view' = view
           /\ durable' = durable
           /\ inTx' = inTx)]_vars

C6_Witness ==
    /\ call.op = "execute_query" /\ call.connOpen /\ call.sql = ScenarioB
    /\ ~result.valid /\ result = call.validation
    /\ call.log = <<"tables", "probe">>

\* C7: a SELECT that execute_query ran successfully comes back with row_count
\* equal to the number of rows and as many column names as every row is long.
C7_SelectEnvelopeShape ==
    (call.op = "execute_query" /\ result.valid /\ result.statement_type = "SELECT") =>
        (/\ result.row_count = Len(result.results)
         /\ \A i \in 1..Len(result.results) :
               Len(result.columns) = Len(result.results[i]))

C7_Witness ==
    /\ call.op = "execute_query" /\ result.valid /\ result.statement_type = "SELECT"
    /\ result.row_count >= 2
    /\ Len(result.columns) = 2

\* C8: an UPDATE or DELETE that the engine ran without an error comes back
\* valid with affected_rows the number of rows the engine changed, never
\* negative; the DELETE that matches no usage_logs row comes back valid with
\* affected_rows = 0.
C8_AffectedRowsIsEngineCount ==
    /\ (call.op = "execute_query" /\ call.kind \in {"UPDATE", "DELETE"} /\ call.executed) =>
           (/\ result.valid
            /\ result.affected_rows = call.changes
            /\ result.affected_rows >= 0)
    /\ (/\ call.op = "execute_query" /\ call.connOpen /\ call.sql = ScenarioD
        /\ "usage_logs" \in view.tables) =>
           (result.valid /\ result.affected_rows = 0)

\* C9: validate_sql called again on the same input right after itself returns
\* the same outcome, and no validate_sql call changes the contents or the
\* catalog, seen or committed.
C9_ValidateIdempotent ==
    [][/\ (call.op = "validate_sql" /\ call'.op = "validate_sql" /\ call'.sql = call.sql) =>
              result' = result
       /\ call'.op = "validate_sql" =>
              (view' = view /\ durable' = durable /\ inTx' = inTx)]_vars

C9_Witness ==
    /\ call.op = "validate_sql" /\ call.repeated /\ call.connOpen
    /\ call.log = <<"tables", "probe">>
    /\ result.valid
    /\ inTx

\* C10: with an open connection neither validate_sql nor execute_query lets an
\* exception out; every failure comes back as valid=false with an error.
C10_NoExceptionEscapes ==
    (Validated /\ call.connOpen) =>
        (/\ result.raised = NoException
         /\ "valid" \in result.has
         /\ ~result.valid => ("error" \in result.has /\ result.error.tag # ""))

\* C11: without a connection, a validate_sql or execute_query call that
\* comes to list the tables of the catalog ends with the failure raised to
\* its caller, not with a valid=false mapping returned.
C11_NoConnectionIsRaised ==
    (Validated /\ ~call.connOpen /\ "tables" \in Elements(call.log)) =>
        (result.raised # NoException /\ "valid" \notin result.has)

\* C12: in every run at most one connection is ever opened, and when the
\* process ends every connection that was opened has been closed.  (A run
\* that ends before it connects opens none.)
C12_OneConnectionClosedAtExit ==
    /\ connections.opened <= 1
    /\ exited => connections.closed = connections.opened

ValidationSteps == {"tables", "probe"}
ExecutionSteps == {"plan", "execute", "commit"}

Occurrences(seq, x) == Cardinality({i \in 1..Len(seq) : seq[i] = x})

\* The terminal states of an execute_query call.
IsRejected == ~call.validation.valid /\ result = call.validation
IsSucceeded == call.validation.valid /\ result.valid /\ result.raised = NoException
IsFailed ==
    /\ call.validation.valid /\ ~result.valid
    /\ result.error.tag = "ExecutionFailed" \/ result.raised # NoException

\* C13: an execute_query call submits its statement to the engine only after
\* validation has accepted it and at most once; a rejected call makes no
\* engine step of execution, a failed step is the call's last, and the call
\* ends in exactly one of rejected, failed and succeeded.
C13_ExecuteQueryStateMachine ==
    call.op = "execute_query" =>
        /\ Occurrences(call.log, "execute") <= 1
        /\ \A i, j \in 1..Len(call.log) :
              (call.log[i] \in ValidationSteps /\ call.log[j] \in ExecutionSteps) => i < j
        /\ Elements(call.log) \cap ExecutionSteps # {} <=> call.validation.valid
        /\ IsRejected => Elements(call.log) \subseteq ValidationSteps
        /\ IsSucceeded => (call.executed /\ call.log[Len(call.log)] \in {"execute", "commit"})
        /\ (IsFailed /\ ~call.executed) => call.log[Len(call.log)] \in {"plan", "execute"}
        /\ Cardinality({k \in {"rejected", "failed", "succeeded"} :
                          \/ k = "rejected" /\ IsRejected
                          \/ k = "failed" /\ IsFailed
                          \/ k = "succeeded" /\ IsSucceeded}) = 1

C13_Witness ==
    /\ call.op = "execute_query" /\ call.connOpen
    /\ call.log = <<"tables", "execute", "commit">>
    /\ IsSucceeded /\ call.changes = 1

WritingKinds == {"INSERT", "UPDATE", "DELETE"}

\* C14: an execute_query call that returns valid=true for an INSERT, UPDATE
\* or DELETE leaves no transaction open and has committed that statement's
\* change, and nothing else, to the file; a call that does not return
\* valid=true leaves the file as it was, and so does every later commit as
\* far as that call's statement goes.
C14_AutoCommitPerStatement ==
    [][call'.op = "execute_query" =>
          /\ (result'.valid /\ call'.kind \in WritingKinds) =>
                /\ ~inTx'
                /\ view' = durable'
                /\ durable'.rows =
                      [durable.rows EXCEPT ![Compile(view, call'.sql).table] =
                          Applied(@, Compile(view, call'.sql))]
          /\ ~result'.valid => durable' = durable]_vars

\* C15: reset_system answered y or yes on an initialized store leaves the
\* six schema tables in the catalog with the seed rows, committed; answered
\* otherwise it leaves contents and catalog as they were.
C15_ResetRebuildsTheStore ==
    [][call'.op = "reset_system" =>
          /\ (/\ Confirmed(call'.sql[1]) /\ conn = "open"
              /\ Vocabulary \subseteq view.tables) =>
                (/\ Vocabulary \subseteq view'.tables
                 /\ view'.rows = SeededDb.rows
                 /\ durable' = view')
          /\ ~Confirmed(call'.sql[1]) => (view' = view /\ durable' = durable)]_vars

====
